---- MODULE Spec2Model ----
(***************************************************************************)
(* Model of libtiny_client's pinger (src/libtiny_client/src/pinger.rs):    *)
(* a two-state task that races a 30 second delay against a one-slot reset  *)
(* channel and reports SendPing / Disconnect on a one-slot event channel.  *)
(*                                                                         *)
(* One loop iteration of pinger_task is one action: the select! resolves   *)
(* and the chosen arm runs to completion without awaiting.  When several   *)
(* arms are ready at the poll, futures' select! picks one of them          *)
(* pseudo-randomly, so the arms are separate actions that may be enabled   *)
(* together.  Time is a discrete clock counting the seconds the delay of   *)
(* the current iteration has been running.                                 *)
(***************************************************************************)
EXTENDS Integers, Sequences, FiniteSets, TLC

\* Duration::from_secs(30) of the delay created by every iteration.
Timeout == 30
\* mpsc::channel(1) for events.
EvCapacity == 1
\* mpsc::channel(1) for reset signals.
RstCapacity == 1

\* Bound on the number of events the task emits in one behaviour.
MaxEvents == 3
\* Value at which the count of reset() calls since the last rearm saturates.
MaxCalls == 2

VARIABLES
    state,        \* PingerState of the task: "SendPing" or "ExpectPong"
    task,         \* position of pinger_task: "running", "disconnected" (return
                  \* after Disconnect), "closed" (return on None), "aborted"
                  \* (unwrap of a failed try_send)
    elapsed,      \* seconds since the delay of this iteration was created
    rst,          \* number of reset signals in the reset channel
    handle,       \* TRUE while the Pinger (snd_rst) exists
    ev,           \* content of the event channel
    evRcv,        \* TRUE while the owner holds rcv_ev
    streamEnded,  \* TRUE once the owner's receive returned None
    emitted,      \* history: events the task sent successfully
    delivered,    \* history: events the owner received
    last,         \* history: arm taken by the latest iteration (the trace
                  \* the task prints): "none", "timer", "reset", "closed"
    callsPending, \* history: reset() calls since the latest reset arm
    everReset,    \* history: reset() was called at least once
    attempted     \* history: event of the latest try_send of the task (the
                  \* event name the task prints before sending), or "none"

vars == <<state, task, elapsed, rst, handle, ev, evRcv, streamEnded,
          emitted, delivered, last, callsPending, everReset, attempted>>

PingerState == {"SendPing", "ExpectPong"}
Event == {"SendPing", "Disconnect"}
TaskPc == {"running", "disconnected", "closed", "aborted"}

Min(a, b) == IF a < b THEN a ELSE b

IsPrefix(s, t) == Len(s) <= Len(t) /\ SubSeq(t, 1, Len(s)) = s

Range(s) == {s[i] : i \in 1..Len(s)}

LastOf(s) == s[Len(s)]

TypeOK ==
    /\ state \in PingerState
    /\ task \in TaskPc
    /\ elapsed \in 0..Timeout
    /\ rst \in Nat
    /\ handle \in BOOLEAN
    /\ ev \in Seq(Event)
    /\ evRcv \in BOOLEAN
    /\ streamEnded \in BOOLEAN
    /\ emitted \in Seq(Event)
    /\ delivered \in Seq(Event)
    /\ last \in {"none", "timer", "reset", "closed"}
    /\ callsPending \in 0..MaxCalls
    /\ everReset \in BOOLEAN
    /\ attempted \in Event \cup {"none"}

\* Pinger::new: both channels empty, task spawned in state SendPing.
Init ==
    /\ state = "SendPing"
    /\ task = "running"
    /\ elapsed = 0
    /\ rst = 0
    /\ handle = TRUE
    /\ ev = <<>>
    /\ evRcv = TRUE
    /\ streamEnded = FALSE
    /\ emitted = <<>>
    /\ delivered = <<>>
    /\ last = "none"
    /\ callsPending = 0
    /\ everReset = FALSE
    /\ attempted = "none"

\* Variant: the free-slot test of the event channel is off by one.
EvTrySendOffByOne(q, rcvAlive) == rcvAlive /\ Len(q) < EvCapacity - 1

\* Variant: the event channel accepts a message whenever its receiver is alive.
EvTrySendUnbounded(q, rcvAlive) == rcvAlive

\* Variant: the reset channel accepts a message whenever its receiver is alive.
RstTrySendUnbounded(n, rcvAlive) == rcvAlive

\* Sender::try_send on the event channel succeeds iff the receiver is alive
\* and a slot is free.
EvTrySendOk(q, rcvAlive) == rcvAlive /\ Len(q) < EvCapacity

\* Sender::try_send on the reset channel succeeds iff the receiver (the task)
\* is alive and a slot is free.
RstTrySendOk(n, rcvAlive) == rcvAlive /\ n < RstCapacity

\* The delay future of the current iteration is ready.
DelayReady == elapsed >= Timeout

\* One second passes while the task waits in select!.
Tick ==
    /\ task = "running"
    /\ elapsed < Timeout
    /\ elapsed' = elapsed + 1
    /\ UNCHANGED <<state, task, rst, handle, ev, evRcv, streamEnded,
                   emitted, delivered, last, callsPending, everReset,
                   attempted>>

\* The task ends (return or panic): rcv_rst and snd_ev are dropped, pending
\* reset signals are discarded with the channel.
TaskEnds(pc) ==
    /\ task' = pc
    /\ rst' = 0
    /\ elapsed' = 0

\* Variant: the result of try_send is ignored instead of unwrapped.
EmitIgnoringError(e, endsAfter) ==
    /\ attempted' = e
    /\ IF EvTrySendOk(ev, evRcv)
       THEN /\ ev' = Append(ev, e)
            /\ emitted' = Append(emitted, e)
       ELSE UNCHANGED <<ev, emitted>>
    /\ IF endsAfter
       THEN TaskEnds("disconnected")
       ELSE /\ task' = task
            /\ rst' = rst
            /\ elapsed' = 0

\* Variant: the iteration that sends an event also takes a pending reset
\* signal out of the reset channel (both arms run in one iteration).
EmitAndDrainReset(e, endsAfter) ==
    /\ attempted' = e
    /\ IF EvTrySendOk(ev, evRcv)
       THEN /\ ev' = Append(ev, e)
            /\ emitted' = Append(emitted, e)
            /\ IF endsAfter
               THEN TaskEnds("disconnected")
               ELSE /\ task' = task
                    /\ rst' = IF rst > 0 THEN rst - 1 ELSE rst
                    /\ elapsed' = 0
       ELSE /\ TaskEnds("aborted")
            /\ UNCHANGED <<ev, emitted>>

\* Variant: the Disconnect case does not return after sending.
EmitNeverReturns(e, endsAfter) ==
    /\ attempted' = e
    /\ IF EvTrySendOk(ev, evRcv)
       THEN /\ ev' = Append(ev, e)
            /\ emitted' = Append(emitted, e)
            /\ task' = task
            /\ rst' = rst
            /\ elapsed' = 0
       ELSE /\ TaskEnds("aborted")
            /\ UNCHANGED <<ev, emitted>>

\* try_send(e).unwrap() of the timer arm, followed by what the arm does next.
EmitOrAbort(e, endsAfter) ==
    /\ attempted' = e
    /\ IF EvTrySendOk(ev, evRcv)
       THEN /\ ev' = Append(ev, e)
            /\ emitted' = Append(emitted, e)
            /\ IF endsAfter
               THEN TaskEnds("disconnected")
               ELSE /\ task' = task
                    /\ rst' = rst
                    /\ elapsed' = 0
       ELSE /\ TaskEnds("aborted")
            /\ UNCHANGED <<ev, emitted>>

\* Variant: the SendPing case does not move the state to ExpectPong.
TimerArmKeepsState ==
    /\ task = "running"
    /\ DelayReady
    /\ Len(emitted) < MaxEvents
    /\ last' = "timer"
    /\ state' = state
    /\ IF state = "SendPing"
       THEN EmitOrAbort("SendPing", FALSE)
       ELSE EmitOrAbort("Disconnect", TRUE)
    /\ UNCHANGED <<handle, evRcv, streamEnded, delivered, callsPending,
                   everReset>>

\* Variant: the two cases of the match on the state are swapped.
TimerArmSwapped ==
    /\ task = "running"
    /\ DelayReady
    /\ Len(emitted) < MaxEvents
    /\ last' = "timer"
    /\ IF state = "ExpectPong"
       THEN /\ state' = "ExpectPong"
            /\ EmitOrAbort("SendPing", FALSE)
       ELSE /\ state' = state
            /\ EmitOrAbort("Disconnect", TRUE)
    /\ UNCHANGED <<handle, evRcv, streamEnded, delivered, callsPending,
                   everReset>>

\* select! arm `() = delay`.
TimerArm ==
    /\ task = "running"
    /\ DelayReady
    /\ Len(emitted) < MaxEvents
    /\ last' = "timer"
    /\ IF state = "SendPing"
       THEN /\ state' = "ExpectPong"
            /\ EmitOrAbort("SendPing", FALSE)
       ELSE /\ state' = state
            /\ EmitOrAbort("Disconnect", TRUE)
    /\ UNCHANGED <<handle, evRcv, streamEnded, delivered, callsPending,
                   everReset>>

\* Variant: the Some(()) case rearms the delay but leaves the state alone.
ResetArmKeepsState ==
    /\ task = "running"
    /\ rst > 0
    /\ rst' = rst - 1
    /\ state' = state
    /\ elapsed' = 0
    /\ last' = "reset"
    /\ callsPending' = 0
    /\ UNCHANGED <<task, handle, ev, evRcv, streamEnded, emitted, delivered,
                   everReset,
                   attempted>>

\* Variant: the Some(()) case assigns the other state.
ResetArmWrongState ==
    /\ task = "running"
    /\ rst > 0
    /\ rst' = rst - 1
    /\ state' = "ExpectPong"
    /\ elapsed' = 0
    /\ last' = "reset"
    /\ callsPending' = 0
    /\ UNCHANGED <<task, handle, ev, evRcv, streamEnded, emitted, delivered,
                   everReset, attempted>>

\* Variant: the delay is created once, before the loop, so the Some(()) case
\* does not rearm it.
ResetArmKeepsDeadline ==
    /\ task = "running"
    /\ rst > 0
    /\ rst' = rst - 1
    /\ state' = "SendPing"
    /\ elapsed' = elapsed
    /\ last' = "reset"
    /\ callsPending' = 0
    /\ UNCHANGED <<task, handle, ev, evRcv, streamEnded, emitted, delivered,
                   everReset, attempted>>

\* select! arm `cmd = rcv_rst_fused.next()` with cmd = Some(()).
ResetArm ==
    /\ task = "running"
    /\ rst > 0
    /\ rst' = rst - 1
    /\ state' = "SendPing"
    /\ elapsed' = 0
    /\ last' = "reset"
    /\ callsPending' = 0
    /\ UNCHANGED <<task, handle, ev, evRcv, streamEnded, emitted, delivered,
                   everReset,
                   attempted>>

\* select! arm `cmd = rcv_rst_fused.next()` with cmd = None: the channel is
\* empty and its sender was dropped.
ClosedArm ==
    /\ task = "running"
    /\ rst = 0
    /\ ~handle
    /\ TaskEnds("closed")
    /\ last' = "closed"
    /\ UNCHANGED <<state, handle, ev, evRcv, streamEnded, emitted, delivered,
                   callsPending, everReset,
                   attempted>>

\* Variant: reset waits for a free slot (send) instead of try_send.
ResetBlocking ==
    /\ handle
    /\ RstTrySendOk(rst, task = "running")
    /\ rst' = rst + 1
    /\ callsPending' = Min(callsPending + 1, MaxCalls)
    /\ everReset' = TRUE
    /\ UNCHANGED <<state, task, elapsed, handle, ev, evRcv, streamEnded,
                   emitted, delivered, last,
                   attempted>>

\* Pinger::reset: try_send(()) with the result ignored.
Reset ==
    /\ handle
    /\ rst' = IF RstTrySendOk(rst, task = "running") THEN rst + 1 ELSE rst
    /\ callsPending' = Min(callsPending + 1, MaxCalls)
    /\ everReset' = TRUE
    /\ UNCHANGED <<state, task, elapsed, handle, ev, evRcv, streamEnded,
                   emitted, delivered, last,
                   attempted>>

\* The owner drops the Pinger, closing the send side of the reset channel.
DropHandle ==
    /\ handle
    /\ handle' = FALSE
    /\ UNCHANGED <<state, task, elapsed, rst, ev, evRcv, streamEnded,
                   emitted, delivered, last, callsPending, everReset,
                   attempted>>

\* The owner receives from rcv_ev: the next event, or None once the channel
\* is empty and the task has dropped snd_ev.
OwnerRecv ==
    /\ evRcv
    /\ \/ /\ Len(ev) > 0
          /\ delivered' = Append(delivered, Head(ev))
          /\ ev' = Tail(ev)
          /\ UNCHANGED streamEnded
       \/ /\ Len(ev) = 0
          /\ task # "running"
          /\ ~streamEnded
          /\ streamEnded' = TRUE
          /\ UNCHANGED <<ev, delivered>>
    /\ UNCHANGED <<state, task, elapsed, rst, handle, evRcv, emitted, last,
                   callsPending, everReset,
                   attempted>>

\* The owner drops rcv_ev; undelivered events are discarded.
DropReceiver ==
    /\ evRcv
    /\ evRcv' = FALSE
    /\ ev' = <<>>
    /\ UNCHANGED <<state, task, elapsed, rst, handle, streamEnded, emitted,
                   delivered, last, callsPending, everReset,
                   attempted>>

Next ==
    \/ Tick
    \/ TimerArm
    \/ ResetArm
    \/ ClosedArm
    \/ Reset
    \/ DropHandle
    \/ OwnerRecv
    \/ DropReceiver

Spec == Init /\ [][Next]_vars

\* The timer runs and the executor polls a ready task.
FairSpec ==
    /\ Spec
    /\ WF_vars(Tick)
    /\ WF_vars(TimerArm)
    /\ WF_vars(ResetArm)
    /\ WF_vars(ClosedArm)

(***************************************************************************)
(* Properties                                                              *)
(***************************************************************************)

\* A step in which the task takes the Some(()) case of the reset arm.
ResetConsumed == task = "running" /\ task' = "running" /\ rst' = rst - 1

\* A step in which the task sends event e successfully.
Emits(e) == emitted' = Append(emitted, e)

\* The owner keeps the handle, never calls reset() and is never late in
\* consuming an event (a late owner makes the next try_send fail).
QuietOwner == ~everReset /\ handle /\ task # "aborted"

C1Safety ==
    QuietOwner =>
        /\ IsPrefix(emitted, <<"SendPing", "Disconnect">>)
        /\ IsPrefix(delivered, emitted)
        /\ task \in {"running", "disconnected"}
        /\ (task = "disconnected" <=> Len(emitted) = 2)
        /\ (last = "none" <=> Len(emitted) = 0)
        /\ (last # "none" => last = "timer")
        /\ (streamEnded =>
                delivered = <<"SendPing", "Disconnect">> /\ ev = <<>>)

\* C1: with the handle kept, no reset() and an owner that consumes each event
\* in time, the task emits exactly SendPing then Disconnect, one per timer
\* elapse, then has terminated; the owner receives them in this order and
\* nothing else before the stream ends; and the two events are eventually
\* emitted.
C1_NoResetRun ==
    /\ []C1Safety
    /\ ([]QuietOwner =>
            <>(emitted = <<"SendPing", "Disconnect">>
               /\ task = "disconnected"))

C1_Witness ==
    /\ ~everReset /\ handle
    /\ task = "disconnected"
    /\ delivered = <<"SendPing", "Disconnect">>
    /\ streamEnded

\* C2: Disconnect is emitted only by a timer elapse in ExpectPong whose
\* preceding iteration was also a timer elapse (the one that emitted the
\* latest SendPing), so no reset was consumed between the two; the task has
\* exited right after emitting it.
C2_DisconnectAfterTwoElapses ==
    [][/\ Emits("Disconnect") =>
            /\ state = "ExpectPong"
            /\ last = "timer"
            /\ elapsed = Timeout
            /\ Len(emitted) > 0 /\ LastOf(emitted) = "SendPing"
            /\ task' = "disconnected"
       /\ "Disconnect" \in Range(emitted) => task = "disconnected"]_vars

C2_Witness ==
    /\ task = "disconnected"
    /\ Len(emitted) = 2
    /\ LastOf(emitted) = "Disconnect"
    /\ everReset

\* C3: a reset consumed in ExpectPong puts the state back to SendPing without
\* emitting; the first event emitted after a consumed reset is SendPing, a
\* full timeout after the reset, never Disconnect, and leaves the task
\* running in ExpectPong.
C3_ResetCancelsDisconnect ==
    [][/\ ResetConsumed /\ state = "ExpectPong" =>
            /\ state' = "SendPing"
            /\ elapsed' = 0
            /\ emitted' = emitted
       /\ last = "reset" /\ emitted' # emitted =>
            /\ Emits("SendPing")
            /\ elapsed = Timeout
            /\ state' = "ExpectPong"
            /\ task' = "running"]_vars

C3_Witness ==
    /\ emitted = <<"SendPing", "SendPing", "Disconnect">>
    /\ delivered = emitted
    /\ task = "disconnected"
    /\ streamEnded

\* C4: once the handle is dropped the task emits no Disconnect.
C4_NoDisconnectAfterDrop ==
    [][~handle => ~Emits("Disconnect")]_vars

\* C5: reset() is enabled whenever the handle exists, and a call made while
\* the reset channel is full or the task has ended changes neither the task
\* nor either channel.
C5_ResetNeverBlocks ==
    /\ [](handle => ENABLED Reset)
    /\ [][Reset /\ (rst >= RstCapacity \/ task # "running") =>
            UNCHANGED <<state, task, elapsed, rst, ev, emitted, last>>]_vars

C5_Witness ==
    /\ handle
    /\ task = "aborted"
    /\ callsPending >= 2
    /\ rst = 0

\* C6: the reset channel holds at most one signal, and the calls made since
\* the latest rearm, however many, leave exactly one signal for the running
\* task (none once it was consumed).
C6_ResetsCoalesce ==
    /\ rst <= RstCapacity
    /\ (callsPending = 0 => rst = 0)
    /\ (task = "running" /\ callsPending > 0 => rst = 1)

C6_Witness ==
    /\ task = "running"
    /\ callsPending = MaxCalls
    /\ rst = 1

\* C7: the event channel never holds more than one undelivered event.
C7_OneEventInFlight == Len(ev) <= EvCapacity

C7_Witness ==
    /\ Len(ev) = 1
    /\ task = "aborted"
    /\ Len(emitted) = MaxEvents - 1

\* C8: a timer elapse that finds the event channel full aborts the task and
\* leaves the channel and the emitted events as they were.
C8_AbortOnFullMailbox ==
    [][TimerArm /\ Len(ev) >= EvCapacity =>
            /\ task' = "aborted"
            /\ ev' = ev
            /\ emitted' = emitted]_vars

C8_Witness ==
    /\ task = "aborted"
    /\ state = "ExpectPong"
    /\ ev = <<"SendPing">>
    /\ ~everReset
    /\ last = "timer"

\* C9: while a reset signal is pending, the iteration the task runs is the
\* reset arm, never the timer arm.
C9_ResetWinsRace ==
    [][rst > 0 /\ (TimerArm \/ ResetArm \/ ClosedArm) =>
            ResetArm /\ emitted' = emitted /\ task' = "running"]_vars

\* C10: the task has ended only if the handle was dropped and it returned
\* without emitting, or it emitted Disconnect; with the handle alive and no
\* Disconnect emitted it is running.
C10_TwoWaysToEnd ==
    /\ task # "running" =>
            \/ task = "closed" /\ ~handle
            \/ task = "disconnected" /\ "Disconnect" \in Range(emitted)
    /\ handle /\ "Disconnect" \notin Range(emitted) => task = "running"

\* C11: from the moment the handle is dropped the task emits no event of any
\* kind, and once no reset signal is left in the channel the iteration it
\* runs is the one that exits on the closed reset channel.
C11_SilentExitAfterDrop ==
    [][~handle =>
            /\ emitted' = emitted
            /\ (rst = 0 /\ (TimerArm \/ ResetArm \/ ClosedArm) =>
                    task' = "closed")]_vars

\* C12: consuming a reset signal sets the state to SendPing from either
\* state, emits nothing and leaves the event channel unchanged; in SendPing
\* the state is unchanged.
C12_ResetFrame ==
    [][ResetArm =>
            /\ state' = "SendPing"
            /\ (state = "SendPing" => state' = state)
            /\ emitted' = emitted
            /\ ev' = ev
            /\ attempted' = attempted
            /\ task' = task]_vars

C12_Witness ==
    /\ last = "reset"
    /\ state = "SendPing"
    /\ ev = <<"SendPing">>
    /\ emitted = <<"SendPing">>
    /\ task = "running"

\* C13: a step of the task is one arm of the select only: the reset arm sends
\* nothing and touches no event state, and a step that sends an event takes
\* no reset signal out of the reset channel.
C13_OneArmPerIteration ==
    [][/\ ~(TimerArm /\ ResetArm)
       /\ ~(TimerArm /\ ClosedArm)
       /\ ~(ResetArm /\ ClosedArm)
       /\ ResetConsumed =>
            /\ emitted' = emitted
            /\ ev' = ev
            /\ attempted' = attempted
       /\ emitted' # emitted =>
            /\ ~ResetConsumed
            /\ callsPending' = callsPending
            /\ last' = "timer"]_vars

C13_Witness ==
    /\ task = "running"
    /\ last = "timer"
    /\ attempted = "SendPing"
    /\ elapsed = 0
    /\ rst = 1
    /\ ~handle

\* C14: an event is emitted only when a full timeout has passed since the
\* latest iteration of the task; every consumed reset and every emitted event
\* restarts the window at zero, and only the clock advances it, one second at
\* a time.
C14_FullWindowBeforeEvent ==
    [][/\ emitted' # emitted => elapsed = Timeout
       /\ ResetConsumed => elapsed' = 0
       /\ emitted' # emitted /\ task' = "running" => elapsed' = 0
       /\ elapsed' > elapsed =>
            /\ elapsed' = elapsed + 1
            /\ emitted' = emitted
            /\ rst' = rst]_vars

C14_Witness ==
    /\ task = "running"
    /\ last = "reset"
    /\ state = "SendPing"
    /\ emitted = <<>>
    /\ attempted = "none"
    /\ elapsed = Timeout

\* C15: the emitted events are a run of SendPing followed by at most one
\* Disconnect: a Disconnect is the last event emitted, is not the first, and
\* the event before it is a SendPing.
C15_EmittedShape ==
    \A i \in 1..Len(emitted) :
        emitted[i] = "Disconnect" =>
            /\ i = Len(emitted)
            /\ i > 1
            /\ emitted[i - 1] = "SendPing"

C15_Witness ==
    /\ Len(emitted) = MaxEvents
    /\ LastOf(emitted) = "Disconnect"
    /\ \A i \in 1..(MaxEvents - 1) : emitted[i] = "SendPing"
    /\ ~handle

\* C16: a timer elapse that finds the event receiver open and the event
\* channel empty sends its event and does not abort, whatever reset() calls
\* and handle drop came before; the task aborts only on a timer elapse with
\* the receiver gone or the channel full, in either state.
C16_AbortOnlyWhenLate ==
    [][/\ TimerArm /\ evRcv /\ Len(ev) = 0 =>
            /\ task' # "aborted"
            /\ Emits(attempted')
            /\ ev' = <<attempted'>>
       /\ task # "aborted" /\ task' = "aborted" =>
            /\ ~evRcv \/ Len(ev) >= EvCapacity
            /\ elapsed = Timeout
            /\ attempted' = (IF state = "SendPing" THEN "SendPing"
                                                   ELSE "Disconnect")]_vars

\* The failed emit attempt was a SendPing: an unconsumed SendPing, a reset
\* consumed in ExpectPong, then a timer elapse in SendPing.
C16_Witness ==
    /\ task = "aborted"
    /\ attempted = "SendPing"
    /\ evRcv
    /\ ev = <<"SendPing">>
    /\ emitted = <<"SendPing">>
    /\ everReset

====
